---- MODULE Spec2Model ----
(***************************************************************************)
(* db_analyzer: PostgreSQL schema -> Rust struct generator.                *)
(*                                                                         *)
(* src/utils.ts holds two generations of the helpers: the exported ones    *)
(* the unit tests import (lines 4-45) and the ones the program itself runs *)
(* (lines 184-248, called by generateRustTypes).  Both are modelled.  The  *)
(* program's helpers keep their source names; the exported ones carry the  *)
(* suffix _exported (toRustType has no namesake).                          *)
(*                                                                         *)
(* Strings are TLA+ strings; a character is a string of length 1.          *)
(***************************************************************************)
EXTENDS Integers, Sequences, FiniteSets, TLC

VARIABLES
    fn,            \* harness: which helper is being called
    name,          \* harness: the argument of the first call
    out,           \* harness: the successive results, each call fed the last
    pgType,        \* harness: source type handed to the type resolver
    isNullable,    \* harness: nullability handed to the type resolver
    rustType,      \* harness: what the resolver returned (a JS value)
    mappings,      \* utils.ts:142  the type mapping in memory
    args,          \* utils.ts:56   parsed command line (only sqlx matters)
    mappingsFile,  \* what mappings.json holds on disk
    fileReads,     \* how many times mappings.json was read
    pc,            \* position of the top-level script / generateRustTypes
    tables,        \* utils.ts:257 the table names the tables query returned
    columns,       \* utils.ts:283 the rows each columns query returned, per table done
    tableIdx,      \* how many tables the for loop has finished
    rustOutput,    \* utils.ts:265  the text built so far, as its lines
    outputFile,    \* what the output file holds: <<>> (never written) or <<text>>
    outputWrites   \* how many times the output file was written

vars == <<fn, name, out, pgType, isNullable, rustType, mappings, args,
          mappingsFile, fileReads, pc, tables, columns, tableIdx, rustOutput,
          outputFile, outputWrites>>

-----------------------------------------------------------------------------
(* Bounds of the model *)

\* longest generated identifier handed to the name helpers
MaxLen == 4
\* how many times a helper is applied to its own result
MaxCalls == 3
\* most columns a columns query returns
MaxColumns == 2

-----------------------------------------------------------------------------
(* Characters and JavaScript string primitives *)

Uppers == "ABCDEFGHIJKLMNOPQRSTUVWXYZ"
Lowers == "abcdefghijklmnopqrstuvwxyz"
Digits == "0123456789"

Char(s, i) == SubSeq(s, i, i)

Slice(s, i) == SubSeq(s, i, Len(s))

CharsOf(str) == {Char(str, i) : i \in 1..Len(str)}

UpperSet == CharsOf(Uppers)

LowerSet == CharsOf(Lowers)

DigitSet == CharsOf(Digits)

IsUpper(c) == c \in UpperSet

IsLower(c) == c \in LowerSet

IsDigit(c) == c \in DigitSet

IsAlnum(c) == IsUpper(c) \/ IsLower(c) \/ IsDigit(c)

\* the lowercase letter of each uppercase letter, and back
LowerOf == [c \in UpperSet |->
              Char(Lowers, CHOOSE i \in 1..Len(Uppers) : Char(Uppers, i) = c)]

UpperOf == [c \in LowerSet |->
              Char(Uppers, CHOOSE i \in 1..Len(Lowers) : Char(Lowers, i) = c)]

LowerChar(c) == IF IsUpper(c) THEN LowerOf[c] ELSE c

UpperChar(c) == IF IsLower(c) THEN UpperOf[c] ELSE c

RECURSIVE toLowerCase(_)
toLowerCase(s) ==
    IF s = "" THEN ""
    ELSE LowerChar(Char(s, 1)) \o toLowerCase(Slice(s, 2))

RECURSIVE toUpperCase(_)
toUpperCase(s) ==
    IF s = "" THEN ""
    ELSE UpperChar(Char(s, 1)) \o toUpperCase(Slice(s, 2))

\* part.charAt(0).toUpperCase() + part.slice(1).toLowerCase()
TitleCase(part) ==
    IF part = "" THEN ""
    ELSE UpperChar(Char(part, 1)) \o toLowerCase(Slice(part, 2))

RECURSIVE Join(_)
Join(parts) ==
    IF parts = <<>> THEN ""
    ELSE Head(parts) \o Join(Tail(parts))

\* String.split on a one-character separator: every separator ends a part,
\* empty parts are kept, the empty string gives one empty part.
RECURSIVE SplitFrom(_, _, _, _)
SplitFrom(s, sep, i, cur) ==
    IF i > Len(s) THEN <<cur>>
    ELSE IF Char(s, i) = sep
         THEN <<cur>> \o SplitFrom(s, sep, i + 1, "")
         ELSE SplitFrom(s, sep, i + 1, cur \o Char(s, i))

Split(s, sep) == SplitFrom(s, sep, 1, "")

\* name.split(/[^a-zA-Z0-9]/)
RECURSIVE SplitNonAlnumFrom(_, _, _)
SplitNonAlnumFrom(s, i, cur) ==
    IF i > Len(s) THEN <<cur>>
    ELSE IF ~IsAlnum(Char(s, i))
         THEN <<cur>> \o SplitNonAlnumFrom(s, i + 1, "")
         ELSE SplitNonAlnumFrom(s, i + 1, cur \o Char(s, i))

SplitNonAlnum(s) == SplitNonAlnumFrom(s, 1, "")

\* the clean-up deleting the characters instead: .replace(/[^a-z0-9_]/g, "")
RECURSIVE ReplaceNonIdent_deleting(_)
ReplaceNonIdent_deleting(s) ==
    IF s = "" THEN ""
    ELSE LET c == Char(s, 1)
         IN (IF IsLower(c) \/ IsDigit(c) \/ c = "_" THEN c ELSE "")
            \o ReplaceNonIdent_deleting(Slice(s, 2))

\* .replace(/[^a-z0-9_]/g, "_")
RECURSIVE ReplaceNonIdent(_)
ReplaceNonIdent(s) ==
    IF s = "" THEN ""
    ELSE LET c == Char(s, 1)
         IN (IF IsLower(c) \/ IsDigit(c) \/ c = "_" THEN c ELSE "_")
            \o ReplaceNonIdent(Slice(s, 2))

-----------------------------------------------------------------------------
(* The boundary regular expressions.  A global replace scans left to right  *)
(* and resumes after the end of each match.                                 *)

\* /([a-z])([A-Z])/ matched at the head of s, case-insensitively (the i flag)
MatchLowerUpperAnyCase(s) ==
    /\ Len(s) >= 2
    /\ IsLower(Char(s, 1)) \/ IsUpper(Char(s, 1))
    /\ IsLower(Char(s, 2)) \/ IsUpper(Char(s, 2))

\* /([a-z])([A-Z])/ matched at the head of s
MatchLowerUpper(s) ==
    /\ Len(s) >= 2
    /\ IsLower(Char(s, 1))
    /\ IsUpper(Char(s, 2))

\* /([a-z0-9])([A-Z])/ matched at the head of s
MatchLowerDigitUpper(s) ==
    /\ Len(s) >= 2
    /\ IsLower(Char(s, 1)) \/ IsDigit(Char(s, 1))
    /\ IsUpper(Char(s, 2))

\* /([A-Z])([A-Z][a-z])/ matched at the head of s
MatchUpperUpperLower(s) ==
    /\ Len(s) >= 3
    /\ IsUpper(Char(s, 1))
    /\ IsUpper(Char(s, 2))
    /\ IsLower(Char(s, 3))

\* .replace(/([a-z])([A-Z])/g, "$1" + sep + "$2")
RECURSIVE ReplaceLowerUpper(_, _)
ReplaceLowerUpper(s, sep) ==
    IF s = "" THEN ""
    ELSE IF MatchLowerUpper(s)
         THEN Char(s, 1) \o sep \o Char(s, 2) \o ReplaceLowerUpper(Slice(s, 3), sep)
         ELSE Char(s, 1) \o ReplaceLowerUpper(Slice(s, 2), sep)

\* .replace(/([a-z0-9])([A-Z])/g, "$1_$2")
RECURSIVE ReplaceLowerDigitUpper(_)
ReplaceLowerDigitUpper(s) ==
    IF s = "" THEN ""
    ELSE IF MatchLowerDigitUpper(s)
         THEN Char(s, 1) \o "_" \o Char(s, 2) \o ReplaceLowerDigitUpper(Slice(s, 3))
         ELSE Char(s, 1) \o ReplaceLowerDigitUpper(Slice(s, 2))

\* the replacement with the [a-z] dropped: .replace(/([A-Z])([A-Z])/g, "$1_$2")
RECURSIVE ReplaceUpperUpper(_)
ReplaceUpperUpper(s) ==
    IF s = "" THEN ""
    ELSE IF Len(s) >= 2 /\ IsUpper(Char(s, 1)) /\ IsUpper(Char(s, 2))
         THEN Char(s, 1) \o "_" \o Char(s, 2) \o ReplaceUpperUpper(Slice(s, 3))
         ELSE Char(s, 1) \o ReplaceUpperUpper(Slice(s, 2))

\* .replace(/([A-Z])([A-Z][a-z])/g, "$1_$2")
RECURSIVE ReplaceUpperUpperLower(_)
ReplaceUpperUpperLower(s) ==
    IF s = "" THEN ""
    ELSE IF MatchUpperUpperLower(s)
         THEN Char(s, 1) \o "_" \o SubSeq(s, 2, 3)
              \o ReplaceUpperUpperLower(Slice(s, 4))
         ELSE Char(s, 1) \o ReplaceUpperUpperLower(Slice(s, 2))

-----------------------------------------------------------------------------
(* JavaScript values: a string, or undefined.  s is what a template literal *)
(* or a string concatenation makes of the value.                           *)

undefined == [u |-> TRUE, s |-> "undefined"]

Str(v) == [u |-> FALSE, s |-> v]

\* what `if (v)` and `v || w` test
Truthy(v) == ~v.u /\ v.s # ""

\* v || w
Or(v, w) == IF Truthy(v) THEN v ELSE w

\* obj[key] on a Record<string, string>
Get(obj, key) == IF key \in DOMAIN obj THEN Str(obj[key]) ELSE undefined

EmptyRecord == [k \in {} |-> ""]

-----------------------------------------------------------------------------
(* The exported helpers, src/utils.ts:4-45 (what the unit tests import)    *)

toRustFieldName_exported(n) ==
    LET snakeCase == toLowerCase(ReplaceLowerDigitUpper(n))
    IN ReplaceNonIdent(snakeCase)

toRustStructName_exported(n) ==
    LET snakeCase == toLowerCase(ReplaceLowerDigitUpper(n))
        cleanName == ReplaceNonIdent(snakeCase)
        parts     == Split(cleanName, "_")
    IN Join([i \in 1..Len(parts) |-> TitleCase(parts[i])])

toRustType(t, nullable, typeMap) ==
    LET rt == Or(Get(typeMap, t), Str("String"))
    IN IF nullable THEN Str("Option<" \o rt.s \o ">") ELSE rt

-----------------------------------------------------------------------------
(* The program's helpers, src/utils.ts:181-248                             *)

pgToRustTypeMap == mappings.typeMap

toRustFieldName(n) ==
    ReplaceNonIdent(toLowerCase(
        ReplaceUpperUpperLower(ReplaceLowerUpper(n, "_"))))

\* the callback without its acronym branch
StructNamePart_noAcronym(part) ==
    IF part = "" THEN ""
    ELSE LET camelCaseParts == Split(ReplaceLowerUpper(part, " "), " ")
         IN Join([i \in 1..Len(camelCaseParts) |-> TitleCase(camelCaseParts[i])])

\* the callback splitting at the digit-aware boundary /([a-z0-9])([A-Z])/
StructNamePart_digitBoundary(part) ==
    IF part = "" THEN ""
    ELSE IF toUpperCase(part) = part /\ Len(part) > 1 THEN part
    ELSE LET camelCaseParts == Split(ReplaceLowerDigitUpper(part), "_")
         IN Join([i \in 1..Len(camelCaseParts) |-> TitleCase(camelCaseParts[i])])

\* the callback of .map((part) => ...) in toRustStructName
StructNamePart(part) ==
    IF part = "" THEN ""
    ELSE IF toUpperCase(part) = part /\ Len(part) > 1 THEN part
    ELSE LET camelCaseParts == Split(ReplaceLowerUpper(part, " "), " ")
         IN Join([i \in 1..Len(camelCaseParts) |-> TitleCase(camelCaseParts[i])])

toRustStructName(n) ==
    LET specialCases == mappings.specialCases
        lowerName    == toLowerCase(n)
        parts        == SplitNonAlnum(n)
    IN IF Truthy(Get(specialCases, lowerName))
       THEN specialCases[lowerName]
       ELSE Join([i \in 1..Len(parts) |-> StructNamePart(parts[i])])

\* the Option wrapper put around the element type instead of the whole type
getRustType_optionInside(t, nullable) ==
    LET plain == Or(Get(pgToRustTypeMap, t), Get(pgToRustTypeMap, "default"))
        isArray == Len(t) >= 2 /\ SubSeq(t, Len(t) - 1, Len(t)) = "[]"
        baseType == SubSeq(t, 1, Len(t) - 2)
        baseRustType == Or(Get(pgToRustTypeMap, baseType),
                           Get(pgToRustTypeMap, "default"))
        wrap(x) == IF nullable THEN "Option<" \o x \o ">" ELSE x
    IN IF isArray THEN Str("Vec<" \o wrap(baseRustType.s) \o ">")
       ELSE IF nullable THEN Str(wrap(plain.s)) ELSE plain

\* the resolver falling back to "String" as toRustType does, not to the
\* default entry
getRustType_stringFallback(t, nullable) ==
    LET plain == Or(Get(pgToRustTypeMap, t), Str("String"))
        isArray == Len(t) >= 2 /\ SubSeq(t, Len(t) - 1, Len(t)) = "[]"
        baseType == SubSeq(t, 1, Len(t) - 2)
        baseRustType == Or(Get(pgToRustTypeMap, baseType), Str("String"))
        rt == IF isArray THEN Str("Vec<" \o baseRustType.s \o ">") ELSE plain
    IN IF nullable THEN Str("Option<" \o rt.s \o ">") ELSE rt

getRustType(t, nullable) ==
    LET plain == Or(Get(pgToRustTypeMap, t), Get(pgToRustTypeMap, "default"))
        isArray == Len(t) >= 2 /\ SubSeq(t, Len(t) - 1, Len(t)) = "[]"
        baseType == SubSeq(t, 1, Len(t) - 2)
        baseRustType == Or(Get(pgToRustTypeMap, baseType),
                           Get(pgToRustTypeMap, "default"))
        rt == IF isArray THEN Str("Vec<" \o baseRustType.s \o ">") ELSE plain
    IN IF nullable THEN Str("Option<" \o rt.s \o ">") ELSE rt

-----------------------------------------------------------------------------
(* Inputs *)

\* the characters generated identifiers are made of: a lowercase letter, two
\* uppercase letters, a digit, the underscore and one other character
Alphabet == {"a", "A", "B", "1", "_", "-"}

RECURSIVE StringsUpTo(_)
StringsUpTo(n) ==
    IF n = 0 THEN {""}
    ELSE LET shorter == StringsUpTo(n - 1)
         IN shorter \cup {s \o c : s \in shorter, c \in Alphabet}

\* the names of the unit tests and of the specification's examples
ExampleNames ==
    {"userId", "UserId", "user_id", "User_Id", "user-id", "user.id",
     "user123Id", "USERID", "ABCWord", "AWord",
     "user_profiles", "userProfiles", "UserProfiles", "user-profiles",
     "user123_profiles", "USER_PROFILES", "users", "Users", "API_key"}

Names == StringsUpTo(MaxLen) \cup ExampleNames

\* src/utils.ts:151-168, the built-in type map
DefaultTypeMap ==
    ("int2" :> "i16") @@ ("int4" :> "i32") @@ ("int8" :> "i64") @@
    ("float4" :> "f32") @@ ("float8" :> "f64") @@ ("numeric" :> "f64") @@
    ("bool" :> "bool") @@ ("varchar" :> "String") @@ ("char" :> "String") @@
    ("text" :> "String") @@ ("uuid" :> "uuid::Uuid") @@
    ("date" :> "chrono::NaiveDate") @@
    ("timestamp" :> "chrono::NaiveDateTime") @@
    ("timestamptz" :> "chrono::DateTime<chrono::Utc>") @@
    ("json" :> "serde_json::Value") @@ ("jsonb" :> "serde_json::Value")

\* src/utils.ts:150-173
DefaultMappings == [typeMap |-> DefaultTypeMap, specialCases |-> EmptyRecord]

\* specialCases objects a mappings.json may hold (keys are lowercased table
\* names); a missing specialCases is the empty one (mappings.specialCases || {})
SpecialCaseChoices ==
    {EmptyRecord,
     ("aa" :> "Acct") @@ ("users" :> "Account"),
     ("aa" :> "") @@ ("users" :> ""),
     ("aa" :> "a1") @@ ("a1" :> "aa")}

\* typeMap objects a mappings.json may hold
TypeMapChoices ==
    {DefaultTypeMap,
     DefaultTypeMap @@ ("default" :> "serde_json::Value"),
     ("int4" :> "Option<i32>") @@ ("text" :> "") @@ ("int4[]" :> "IntArray"),
     EmptyRecord}

PgTypes ==
    {"int4", "text", "uuid", "unknown_type", "ARRAY", "default", "",
     "int4[]", "text[]", "unknown_type[]", "int4[][]", "[]"}

EndsWith(s, suffix) ==
    Len(s) >= Len(suffix) /\ SubSeq(s, Len(s) - Len(suffix) + 1, Len(s)) = suffix

StartsWith(s, prefix) ==
    Len(s) >= Len(prefix) /\ SubSeq(s, 1, Len(prefix)) = prefix

-----------------------------------------------------------------------------
(* What the variables hold while a specification does not use them *)

IdleHarness ==
    /\ fn = "none" /\ name = "" /\ out = <<>>
    /\ pgType = "" /\ isNullable = FALSE /\ rustType = undefined

IdleProgram ==
    /\ args = [sqlx |-> FALSE]
    /\ mappingsFile = [state |-> "absent"] /\ fileReads = 0
    /\ tables = <<>> /\ columns = <<>> /\ tableIdx = 0 /\ rustOutput = <<>>
    /\ outputFile = <<>> /\ outputWrites = 0

programVars == <<args, mappingsFile, fileReads, tables, columns, tableIdx,
                 rustOutput, outputFile, outputWrites>>

-----------------------------------------------------------------------------
(* SpecNames: a name helper applied to a name, then to its own result       *)

NameFns == {"toRustFieldName", "toRustFieldName_exported",
            "toRustStructName", "toRustStructName_exported"}

NamesInit ==
    /\ fn \in NameFns
    /\ name \in Names
    /\ out = <<>>
    /\ pgType = "" /\ isNullable = FALSE /\ rustType = undefined
    /\ mappings \in IF fn = "toRustStructName"
                    THEN {[typeMap |-> DefaultTypeMap, specialCases |-> sc] :
                            sc \in SpecialCaseChoices}
                    ELSE {DefaultMappings}
    /\ pc = "call"
    /\ IdleProgram

\* the argument of the next call
Arg == IF out = <<>> THEN name ELSE out[Len(out)]

Returned(result) ==
    /\ Len(out) < MaxCalls
    /\ out' = Append(out, result)
    /\ UNCHANGED <<fn, name, pgType, isNullable, rustType, mappings, pc>>
    /\ UNCHANGED programVars

CallToRustFieldName ==
    /\ fn = "toRustFieldName"
    /\ Returned(toRustFieldName(Arg))

CallToRustFieldNameExported ==
    /\ fn = "toRustFieldName_exported"
    /\ Returned(toRustFieldName_exported(Arg))

CallToRustStructName ==
    /\ fn = "toRustStructName"
    /\ Returned(toRustStructName(Arg))

CallToRustStructNameExported ==
    /\ fn = "toRustStructName_exported"
    /\ Returned(toRustStructName_exported(Arg))

NamesNext ==
    \/ CallToRustFieldName
    \/ CallToRustFieldNameExported
    \/ CallToRustStructName
    \/ CallToRustStructNameExported

SpecNames == NamesInit /\ [][NamesNext]_vars

-----------------------------------------------------------------------------
(* SpecTypes: one call of a type resolver                                   *)

TypesInit ==
    /\ fn \in {"getRustType", "toRustType"}
    /\ name = "" /\ out = <<>>
    /\ pgType \in PgTypes
    /\ isNullable \in BOOLEAN
    /\ rustType = undefined
    /\ mappings \in {[typeMap |-> tm, specialCases |-> EmptyRecord] :
                       tm \in TypeMapChoices}
    /\ pc = "call"
    /\ IdleProgram

CallGetRustType ==
    /\ fn = "getRustType" /\ pc = "call"
    /\ rustType' = getRustType(pgType, isNullable)
    /\ pc' = "return"
    /\ UNCHANGED <<fn, name, out, pgType, isNullable, mappings>>
    /\ UNCHANGED programVars

CallToRustType ==
    /\ fn = "toRustType" /\ pc = "call"
    /\ rustType' = toRustType(pgType, isNullable, mappings.typeMap)
    /\ pc' = "return"
    /\ UNCHANGED <<fn, name, out, pgType, isNullable, mappings>>
    /\ UNCHANGED programVars

TypesNext ==
    \/ CallGetRustType
    \/ CallToRustType

SpecTypes == TypesInit /\ [][TypesNext]_vars

-----------------------------------------------------------------------------
(* The emitter, src/utils.ts:265-341.  rustOutput is kept as its lines: every *)
(* "\n" the code appends ends one.                                           *)

\* column_default: string | null
null == [u |-> TRUE, s |-> "null"]

\* utils.ts:265-276
Preamble ==
    <<"// Generated Rust types for PostgreSQL database", "">>
    \o (IF args.sqlx
        THEN <<"use sqlx;", "use serde::{Deserialize, Serialize};">>
        ELSE <<"use serde::{Deserialize, Serialize};">>)
    \o <<"use chrono;", "use uuid;", "use serde_json;", "">>

\* the binding line carrying the struct name instead of the table name
HeaderLines_structName(tableName) ==
    IF args.sqlx
    THEN <<"#[derive(Debug, Serialize, Deserialize, sqlx::FromRow)]",
           "#[sqlx(rename_all = \"camelCase\")]",
           "#[sqlx(table = \"" \o toRustStructName(tableName) \o "\")]">>
    ELSE <<"#[derive(Debug, Serialize, Deserialize)]",
           "#[serde(rename_all = \"camelCase\")]",
           "#[serde(rename = \"" \o toRustStructName(tableName) \o "\")]">>

\* utils.ts:300-311
HeaderLines(tableName) ==
    IF args.sqlx
    THEN <<"#[derive(Debug, Serialize, Deserialize, sqlx::FromRow)]",
           "#[sqlx(rename_all = \"camelCase\")]",
           "#[sqlx(table = \"" \o tableName \o "\")]">>
    ELSE <<"#[derive(Debug, Serialize, Deserialize)]",
           "#[serde(rename_all = \"camelCase\")]",
           "#[serde(rename = \"" \o tableName \o "\")]">>

\* utils.ts:321-325
DocLine(column) ==
    "    /// " \o column.column_name \o " - " \o column.data_type
    \o (IF column.is_nullable = "YES" THEN ", nullable" ELSE "")
    \o (IF Truthy(column.column_default)
        THEN ", default: " \o column.column_default.s ELSE "")

\* the rename attribute ignoring --sqlx
RenameLine_serdeOnly(originalColumnName) ==
    "    #[serde(rename = \"" \o originalColumnName \o "\")]"

\* utils.ts:329-335
RenameLine(originalColumnName) ==
    IF args.sqlx
    THEN "    #[sqlx(rename = \"" \o originalColumnName \o "\")]"
    ELSE "    #[serde(rename = \"" \o originalColumnName \o "\")]"

\* the test of line 328 without the toLowerCase()
NeedsRename_caseSensitive(column) ==
    toRustFieldName(column.column_name) # column.column_name

\* utils.ts:328
NeedsRename(column) ==
    toRustFieldName(column.column_name) # toLowerCase(column.column_name)

\* utils.ts:338
FieldLine(column) ==
    "    pub " \o toRustFieldName(column.column_name) \o ": "
    \o getRustType(column.data_type, column.is_nullable = "YES").s \o ","

\* the body of the inner for loop, utils.ts:314-339
ColumnLines(column) ==
    <<DocLine(column)>>
    \o (IF NeedsRename(column) THEN <<RenameLine(column.column_name)>> ELSE <<>>)
    \o <<FieldLine(column)>>

\* the loop run over the rows last to first
RECURSIVE AllColumnLines_reversed(_)
AllColumnLines_reversed(rows) ==
    IF rows = <<>> THEN <<>>
    ELSE AllColumnLines_reversed(Tail(rows)) \o ColumnLines(Head(rows))

\* the inner for loop over the rows, first to last
RECURSIVE AllColumnLines(_)
AllColumnLines(rows) ==
    IF rows = <<>> THEN <<>>
    ELSE ColumnLines(Head(rows)) \o AllColumnLines(Tail(rows))

\* one pass of the outer for loop after its query, utils.ts:299-341
StructLines(tableName, rows) ==
    HeaderLines(tableName)
    \o <<"pub struct " \o toRustStructName(tableName) \o " {">>
    \o AllColumnLines(rows)
    \o <<"}", "">>

-----------------------------------------------------------------------------
(* What the database and the disk may hold *)

\* the tables the public schema may hold, as the tables query orders them
\* (ORDER BY table_name)
TableNameOrder == <<"API_keys", "users">>

RECURSIVE Pick(_, _, _)
Pick(seq, S, i) ==
    IF i > Len(seq) THEN <<>>
    ELSE (IF i \in S THEN <<seq[i]>> ELSE <<>>) \o Pick(seq, S, i + 1)

\* the rows of the tables query: any of the tables, in that order
TableLists ==
    {Pick(TableNameOrder, S, 1) : S \in SUBSET (1..Len(TableNameOrder))}

ColumnRows ==
    {[column_name |-> "user_id", data_type |-> "uuid",
      is_nullable |-> "NO", column_default |-> null],
     [column_name |-> "userId", data_type |-> "int4[]",
      is_nullable |-> "YES", column_default |-> Str("0")],
     [column_name |-> "USERID", data_type |-> "unknown_type",
      is_nullable |-> "NO", column_default |-> Str("")],
     [column_name |-> "user-name", data_type |-> "text",
      is_nullable |-> "YES", column_default |-> null]}

\* the rows of one columns query: at most MaxColumns, no column name twice
ColumnLists ==
    UNION {{rows \in [1..n -> ColumnRows] :
               \A i, j \in 1..n : i # j => rows[i].column_name # rows[j].column_name} :
           n \in 0..MaxColumns}

CustomMappings ==
    [typeMap |-> ("uuid" :> "sqlx::types::Uuid") @@ ("int4" :> "i32")
                 @@ ("default" :> "Json"),
     specialCases |-> ("users" :> "Account")]

MappingsFiles ==
    {[state |-> "absent"], [state |-> "corrupt"],
     [state |-> "ok", content |-> CustomMappings]}

\* `let mappings` before its assignment
Unassigned == [typeMap |-> EmptyRecord, specialCases |-> EmptyRecord]

-----------------------------------------------------------------------------
(* Spec: one run of the program, src/utils.ts:136-396                        *)

Init ==
    /\ IdleHarness
    /\ args \in {[sqlx |-> b] : b \in BOOLEAN}
    /\ mappingsFile \in MappingsFiles
    /\ fileReads = 0
    /\ mappings = Unassigned
    /\ pc = "load"
    /\ tables = <<>> /\ columns = <<>> /\ tableIdx = 0
    /\ rustOutput = <<>>
    /\ outputFile = <<>> /\ outputWrites = 0

harnessVars == <<fn, name, out, pgType, isNullable, rustType>>

\* utils.ts:144-178
LoadMappings ==
    /\ pc = "load"
    /\ fileReads' = fileReads + 1
    /\ \/ /\ mappingsFile.state = "ok"
          /\ mappings' = mappingsFile.content
          /\ UNCHANGED mappingsFile
       \/ /\ mappingsFile.state # "ok"
          /\ mappings' = DefaultMappings
          /\ mappingsFile' = [state |-> "ok", content |-> DefaultMappings]
    /\ pc' = "connect"
    /\ UNCHANGED <<args, tables, columns, tableIdx, rustOutput, outputFile,
                   outputWrites>>
    /\ UNCHANGED harnessVars

\* utils.ts:144-176 when the write of line 176 rejects: the await is at the
\* top level of the module, outside every try, so the script ends there
LoadMappingsFails ==
    /\ pc = "load"
    /\ mappingsFile.state # "ok"
    /\ fileReads' = fileReads + 1
    /\ mappings' = DefaultMappings
    /\ pc' = "crashed"
    /\ UNCHANGED <<args, mappingsFile, tables, columns, tableIdx, rustOutput,
                   outputFile, outputWrites>>
    /\ UNCHANGED harnessVars

\* a rejected await inside the try block: catch logs, finally runs
Fails(at) ==
    /\ pc = at
    /\ pc' = "finally"
    /\ UNCHANGED <<args, mappingsFile, fileReads, mappings, tables, columns,
                   tableIdx, rustOutput, outputFile, outputWrites>>
    /\ UNCHANGED harnessVars

\* utils.ts:253
Connect ==
    /\ pc = "connect"
    /\ pc' = "tables"
    /\ UNCHANGED <<args, mappingsFile, fileReads, mappings, tables, columns,
                   tableIdx, rustOutput, outputFile, outputWrites>>
    /\ UNCHANGED harnessVars

ConnectFails == Fails("connect")

\* utils.ts:257-276
QueryTables ==
    /\ pc = "tables"
    /\ \E rows \in TableLists : tables' = rows
    /\ rustOutput' = Preamble
    /\ pc' = "loop"
    /\ UNCHANGED <<args, mappingsFile, fileReads, mappings, columns, tableIdx,
                   outputFile, outputWrites>>
    /\ UNCHANGED harnessVars

QueryTablesFails == Fails("tables")

\* utils.ts:278-342, one table
ProcessTable ==
    /\ pc = "loop"
    /\ tableIdx < Len(tables)
    /\ \E rows \in ColumnLists :
          /\ columns' = Append(columns, rows)
          /\ rustOutput' = rustOutput \o StructLines(tables[tableIdx + 1], rows)
    /\ tableIdx' = tableIdx + 1
    /\ UNCHANGED <<args, mappingsFile, fileReads, mappings, tables, pc,
                   outputFile, outputWrites>>
    /\ UNCHANGED harnessVars

QueryColumnsFails ==
    /\ tableIdx < Len(tables)
    /\ Fails("loop")

\* the write moved into the for loop: the text is written whether or not
\* tables remain
WriteOutput_early ==
    /\ pc = "loop"
    /\ outputFile' = <<rustOutput>>
    /\ outputWrites' = outputWrites + 1
    /\ pc' = "finally"
    /\ UNCHANGED <<args, mappingsFile, fileReads, mappings, tables, columns,
                   tableIdx, rustOutput>>
    /\ UNCHANGED harnessVars

\* utils.ts:344-386
WriteOutput ==
    /\ pc = "loop"
    /\ tableIdx = Len(tables)
    /\ outputFile' = <<rustOutput>>
    /\ outputWrites' = outputWrites + 1
    /\ pc' = "finally"
    /\ UNCHANGED <<args, mappingsFile, fileReads, mappings, tables, columns,
                   tableIdx, rustOutput>>
    /\ UNCHANGED harnessVars

WriteOutputFails ==
    /\ tableIdx = Len(tables)
    /\ Fails("loop")

\* utils.ts:389-391
ClientEnd ==
    /\ pc = "finally"
    /\ pc' = "done"
    /\ UNCHANGED <<args, mappingsFile, fileReads, mappings, tables, columns,
                   tableIdx, rustOutput, outputFile, outputWrites>>
    /\ UNCHANGED harnessVars

Next ==
    \/ LoadMappings
    \/ LoadMappingsFails
    \/ Connect
    \/ ConnectFails
    \/ QueryTables
    \/ QueryTablesFails
    \/ ProcessTable
    \/ QueryColumnsFails
    \/ WriteOutput
    \/ WriteOutputFails
    \/ ClientEnd

Spec == Init /\ [][Next]_vars

-----------------------------------------------------------------------------
(* Vocabulary of the properties *)

\* s with an underscore inserted after every position in B
RECURSIVE InsertAfterFrom(_, _, _)
InsertAfterFrom(s, B, i) ==
    IF i > Len(s) THEN ""
    ELSE Char(s, i) \o (IF i \in B THEN "_" ELSE "") \o InsertAfterFrom(s, B, i + 1)

InsertAfter(s, B) == InsertAfterFrom(s, B, 1)

\* lowercased, every character outside [a-z0-9_] turned into an underscore
Sanitized(s) ==
    Join([i \in 1..Len(s) |->
            LET c == LowerChar(Char(s, i))
            IN IF IsLower(c) \/ IsDigit(c) \/ c = "_" THEN c ELSE "_"])

\* positions followed by a camelCase boundary: lowercase letter, then uppercase
LowerUpperAt(s) ==
    {i \in 1..(Len(s) - 1) : IsLower(Char(s, i)) /\ IsUpper(Char(s, i + 1))}

\* the same with a digit allowed on the left
LowerDigitUpperAt(s) ==
    {i \in 1..(Len(s) - 1) :
        /\ IsLower(Char(s, i)) \/ IsDigit(Char(s, i))
        /\ IsUpper(Char(s, i + 1))}

\* positions where an uppercase letter is followed by uppercase-then-lowercase
UpperBeforeWordAt(s) ==
    {i \in 1..(Len(s) - 2) :
        IsUpper(Char(s, i)) /\ IsUpper(Char(s, i + 1)) /\ IsLower(Char(s, i + 2))}

\* the same, where the uppercase letter ends a run of two or more
AcronymBeforeWordAt(s) ==
    {i \in UpperBeforeWordAt(s) : i >= 2 /\ IsUpper(Char(s, i - 1))}

\* a struct name a further toRustStructName leaves alone: entirely uppercase
\* letters and digits, or no uppercase letter right after an uppercase letter
\* or a digit
SettledStructName(s) ==
    \/ toUpperCase(s) = s
    \/ \A i \in 2..Len(s) : IsUpper(Char(s, i)) => IsLower(Char(s, i - 1))

\* the elements of a finite set of integers, ascending
RECURSIVE SortedSeq(_)
SortedSeq(S) ==
    IF S = {} THEN <<>>
    ELSE LET least == CHOOSE x \in S : \A y \in S : x <= y
         IN <<least>> \o SortedSeq(S \ {least})

\* the pieces of s cut after every position in B
CutAfter(s, B) ==
    LET cuts == SortedSeq((B \cap (1..Len(s))) \cup {Len(s)})
    IN [k \in 1..Len(cuts) |->
          SubSeq(s, IF k = 1 THEN 1 ELSE cuts[k - 1] + 1, cuts[k])]

\* the tokens of a name: its maximal runs of letters and digits, in order
Tokens(s) ==
    LET starts == SortedSeq({i \in 1..Len(s) :
                    /\ IsAlnum(Char(s, i))
                    /\ i = 1 \/ ~IsAlnum(Char(s, i - 1))})
        endOf(i) == CHOOSE j \in i..Len(s) :
                    /\ \A k \in i..j : IsAlnum(Char(s, k))
                    /\ j = Len(s) \/ ~IsAlnum(Char(s, j + 1))
    IN [k \in 1..Len(starts) |-> SubSeq(s, starts[k], endOf(starts[k]))]

HasLower(s) == \E i \in 1..Len(s) : IsLower(Char(s, i))

\* entirely uppercase (no lowercase letter) and longer than one character
IsAcronym(token) == Len(token) > 1 /\ ~HasLower(token)

\* every piece title-cased, the results concatenated
TitleCased(pieces) == Join([k \in 1..Len(pieces) |-> TitleCase(pieces[k])])

Contains(s, sub) ==
    \E i \in 1..(Len(s) - Len(sub) + 1) : SubSeq(s, i, i + Len(sub) - 1) = sub

\* lowercase letters, digits and underscores, with at least one underscore
IsSnakeCase(s) ==
    /\ \A i \in 1..Len(s) :
          IsLower(Char(s, i)) \/ IsDigit(Char(s, i)) \/ Char(s, i) = "_"
    /\ \E i \in 1..Len(s) : Char(s, i) = "_"

\* reading the emitted text back
IsStructLine(line) == StartsWith(line, "pub struct ")

IsDocLine(line) == StartsWith(line, "    /// ")

IsRenameLine(line) == StartsWith(line, "    #[")

IsFieldLine(line) == StartsWith(line, "    pub ")

IsCloseLine(line) == line = "}"

\* the positions of the lines of a text that satisfy P, in order
Where(lines, P(_)) ==
    SelectSeq([i \in 1..Len(lines) |-> i], LAMBDA i : P(lines[i]))

\* the struct bodies of a text, in order: for each struct line, the lines
\* between it and the first "}" line after it
StructBodies(lines) ==
    LET starts == Where(lines, IsStructLine)
        ends   == Where(lines, IsCloseLine)
    IN [k \in 1..Len(starts) |->
          LET m == CHOOSE n \in 1..Len(ends) :
                      /\ ends[n] > starts[k]
                      /\ n = 1 \/ ends[n - 1] < starts[k]
          IN SubSeq(lines, starts[k] + 1, ends[m] - 1)]

\* the identifier of a field line: what stands between "    pub " and ":"
FieldIdent(line) ==
    LET colon == CHOOSE i \in 9..Len(line) :
                    /\ Char(line, i) = ":"
                    /\ \A j \in 9..(i - 1) : Char(line, j) # ":"
    IN SubSeq(line, 9, colon - 1)

\* the text holds the struct of every table of the tables query, each with
\* one field line per column of its columns query, and ends with the last
\* struct's closing lines
HoldsEveryStruct(lines) ==
    LET structAt == Where(lines, IsStructLine)
        bodies   == StructBodies(lines)
    IN /\ Len(structAt) = Len(tables)
       /\ Len(columns) = Len(tables)
       /\ \A k \in 1..Len(tables) :
             /\ lines[structAt[k]] =
                   "pub struct " \o toRustStructName(tables[k]) \o " {"
             /\ Len(SelectSeq(bodies[k], IsFieldLine)) = Len(columns[k])
       /\ tables # <<>> =>
             /\ lines[Len(lines) - 1] = "}"
             /\ lines[Len(lines)] = ""

\* every rename attribute of a struct has the style of the two header lines
\* right above the struct line
RenameStyleIsHeaderStyle ==
    LET structAt == Where(rustOutput, IsStructLine)
        bodies   == StructBodies(rustOutput)
    IN \A k \in 1..Len(structAt) :
          \E s \in {"sqlx", "serde"} :
             /\ StartsWith(rustOutput[structAt[k] - 1], "#[" \o s \o "(")
             /\ StartsWith(rustOutput[structAt[k] - 2], "#[" \o s \o "(")
             /\ \A i \in 1..Len(bodies[k]) :
                   IsRenameLine(bodies[k][i]) =>
                       StartsWith(bodies[k][i], "    #[" \o s \o "(rename = ")

-----------------------------------------------------------------------------
(* C1 *)

\* C1: toRustFieldName is idempotent: applied to its own result it returns that
\* result unchanged, for the program's helper and for the exported one.
C1_FieldNameIdempotent ==
    fn \in {"toRustFieldName", "toRustFieldName_exported"} =>
        \A i \in 2..Len(out) : out[i] = out[i - 1]

\* a name the helper does change has been normalised twice
C1_Witness ==
    /\ fn = "toRustFieldName"
    /\ Len(out) >= 2
    /\ name = "userId"
    /\ out[1] = "user_id"

-----------------------------------------------------------------------------
(* C2 *)

\* C2 (as claimed): toRustStructName is idempotent for every input string and
\* every specialCases mapping.
C2_StructNameIdempotent ==
    fn \in {"toRustStructName", "toRustStructName_exported"} =>
        \A i \in 2..Len(out) : out[i] = out[i - 1]

\* C2 (amended): with no special case configured, the second result is a fixed
\* point of both helpers (a third application changes nothing), and the
\* program's helper returns its first result unchanged exactly when that
\* result is entirely uppercase letters and digits or has no uppercase letter
\* right after an uppercase letter or a digit.
C2_StructNameSettles ==
    /\ fn \in {"toRustStructName", "toRustStructName_exported"}
       /\ mappings.specialCases = EmptyRecord
       => \A i \in 3..Len(out) : out[i] = out[i - 1]
    /\ fn = "toRustStructName" /\ mappings.specialCases = EmptyRecord
       /\ Len(out) >= 2
       => (out[2] = out[1] <=> SettledStructName(out[1]))

\* three calls were made on a name whose first result the second call changes
C2_Witness ==
    /\ fn = "toRustStructName"
    /\ mappings.specialCases = EmptyRecord
    /\ Len(out) >= 3
    /\ out[2] # out[1]
    /\ out[3] = out[2]

-----------------------------------------------------------------------------
(* C3 *)

\* C3: whenever lowercase(table name) is a key of specialCases, toRustStructName
\* returns exactly the mapped value, whatever that value is.
C3_SpecialCaseShortCircuit ==
    /\ fn = "toRustStructName"
    /\ Len(out) >= 1
    /\ toLowerCase(name) \in DOMAIN mappings.specialCases
    => out[1] = mappings.specialCases[toLowerCase(name)]

-----------------------------------------------------------------------------
(* C4 *)

\* C4: an array-marked type T[] resolved as nullable gives Option<Vec<R>>, R
\* being what T resolves to as non-nullable (T may itself be array-marked).
C4_WrappingOrder ==
    /\ fn = "getRustType" /\ pc = "return"
    /\ EndsWith(pgType, "[]")
    /\ isNullable
    => rustType = Str("Option<Vec<"
                      \o getRustType(SubSeq(pgType, 1, Len(pgType) - 2), FALSE).s
                      \o ">>")

-----------------------------------------------------------------------------
(* C5 *)

-----------------------------------------------------------------------------
(* C6 *)

\* C6: there is one struct per table processed, and its body holds exactly one
\* field line and one doc line per input column, the i-th of each being that
\* of the i-th column: nothing dropped, merged or reordered.
C6_FieldOrder ==
    LET bodies == StructBodies(rustOutput)
    IN /\ Len(bodies) = tableIdx
       /\ \A k \in 1..tableIdx :
             LET body   == bodies[k]
                 fields == SelectSeq(body, IsFieldLine)
                 docs   == SelectSeq(body, IsDocLine)
             IN /\ Len(fields) = Len(columns[k])
                /\ Len(docs) = Len(columns[k])
                /\ \A i \in 1..Len(columns[k]) :
                      LET col == columns[k][i].column_name
                      IN /\ StartsWith(fields[i],
                                 "    pub " \o toRustFieldName(col) \o ": ")
                         /\ StartsWith(docs[i], "    /// " \o col \o " - ")

\* a written file whose second struct has USERID before user_id
C6_Witness ==
    /\ pc = "done" /\ outputWrites = 1
    /\ tableIdx = 2
    /\ Len(columns[2]) = 2
    /\ columns[2][1].column_name = "USERID"
    /\ columns[2][2].column_name = "user_id"
    /\ outputFile = <<rustOutput>>

-----------------------------------------------------------------------------
(* C7 *)

\* C7: a source type that is no key of the type map, under a mapping with no
\* default entry, resolves to "String" (nullable: "Option<String>").
C7_UnknownTypeFallback ==
    /\ fn = "getRustType" /\ pc = "return"
    /\ pgType \notin DOMAIN mappings.typeMap
    /\ "default" \notin DOMAIN mappings.typeMap
    /\ ~EndsWith(pgType, "[]")
    => rustType = Str(IF isNullable THEN "Option<String>" ELSE "String")

-----------------------------------------------------------------------------
(* C8 *)

\* C8: resolving a type as nullable gives "Option<" + (what it resolves to as
\* non-nullable) + ">", for the program's resolver and the exported one; a
\* non-nullable result starts with "Option<" only if an entry of the type map
\* does (the resolver adds no Option of its own).
C8_NullableWrapping ==
    pc = "return" =>
        /\ fn = "getRustType" /\ isNullable =>
              rustType = Str("Option<" \o getRustType(pgType, FALSE).s \o ">")
        /\ fn = "toRustType" /\ isNullable =>
              rustType = Str("Option<"
                             \o toRustType(pgType, FALSE, mappings.typeMap).s
                             \o ">")
        /\ ~isNullable /\ StartsWith(rustType.s, "Option<") =>
              \E k \in DOMAIN mappings.typeMap :
                  StartsWith(mappings.typeMap[k], "Option<")

\* a nullable array column of a mapped type has been resolved
C8_Witness ==
    /\ fn = "getRustType" /\ pc = "return"
    /\ pgType = "int4[]"
    /\ isNullable
    /\ rustType = Str("Option<Vec<i32>>")

-----------------------------------------------------------------------------
(* C9 *)

\* C9: the result of toRustFieldName is the name with an underscore inserted at
\* every position where a lowercase letter or a digit is immediately followed
\* by an uppercase letter (and possibly at others), lowercased and cleaned;
\* "user123Id" gives "user123_id" and "userId" gives "user_id".
C9_DigitBoundary ==
    fn = "toRustFieldName" /\ Len(out) >= 1 =>
        /\ \E B \in SUBSET (1..(Len(name) - 1)) :
              /\ LowerDigitUpperAt(name) \subseteq B
              /\ out[1] = Sanitized(InsertAfter(name, B))
        /\ name = "user123Id" => out[1] = "user123_id"
        /\ name = "userId" => out[1] = "user_id"

-----------------------------------------------------------------------------
(* C10 *)

\* C10 (as claimed): the acronym-to-word underscore goes exactly where an
\* uppercase run of two or more letters is followed by an uppercase-then-
\* lowercase pair; a single uppercase letter before such a pair gets none.
C10_AcronymRunOfTwo ==
    fn = "toRustFieldName" /\ Len(out) >= 1 =>
        out[1] = Sanitized(InsertAfter(name,
                     LowerUpperAt(name) \cup AcronymBeforeWordAt(name)))

\* C10 (amended): the program's toRustFieldName inserts the acronym-to-word
\* underscore exactly where an uppercase letter (a run of one or more) is
\* immediately followed by an uppercase-then-lowercase pair: "ABCWord" gives
\* "abc_word", "AWord" gives "a_word", and "USERID" gets none.
C10_AcronymBoundary ==
    fn = "toRustFieldName" /\ Len(out) >= 1 =>
        /\ out[1] = Sanitized(InsertAfter(name,
                        LowerUpperAt(name) \cup UpperBeforeWordAt(name)))
        /\ name = "ABCWord" => out[1] = "abc_word"
        /\ name = "AWord" => out[1] = "a_word"
        /\ name = "USERID" => out[1] = "userid"

C10_Witness ==
    /\ fn = "toRustFieldName"
    /\ Len(out) >= 1
    /\ name = "ABCWord"
    /\ out[1] = "abc_word"

-----------------------------------------------------------------------------
(* C11 *)

-----------------------------------------------------------------------------
(* C12 *)

\* C12: for a name made of all-uppercase words joined by underscores and no
\* special case, the struct name is the words title-cased and concatenated,
\* the same as for the lowercased name; "USER_PROFILES" gives "UserProfiles".
C12_UppercaseWords ==
    /\ fn \in {"toRustStructName", "toRustStructName_exported"}
    /\ Len(out) >= 1
    /\ mappings.specialCases = EmptyRecord
    /\ name # ""
    /\ \A i \in 1..Len(name) : IsUpper(Char(name, i)) \/ Char(name, i) = "_"
    => /\ out[1] = TitleCased(Tokens(name))
       /\ out[1] = (IF fn = "toRustStructName"
                    THEN toRustStructName(toLowerCase(name))
                    ELSE toRustStructName_exported(toLowerCase(name)))
       /\ name = "USER_PROFILES" => out[1] = "UserProfiles"

-----------------------------------------------------------------------------
(* C13 *)

\* C13: for a name with no special case and no all-uppercase token, the
\* struct name is the concatenation of the title-cased words of the name, the
\* words being delimited by runs of non-alphanumeric characters and by the
\* places where a lowercase letter or a digit is immediately followed by an
\* uppercase letter.
C13_WordsTitleCased ==
    /\ fn = "toRustStructName"
    /\ Len(out) >= 1
    /\ toLowerCase(name) \notin DOMAIN mappings.specialCases
    /\ LET tokens == Tokens(name)
       IN \A k \in 1..Len(tokens) : HasLower(tokens[k])
    => LET tokens == Tokens(name)
       IN out[1] = Join([k \in 1..Len(tokens) |->
                           TitleCased(CutAfter(tokens[k],
                                               LowerDigitUpperAt(tokens[k])))])

-----------------------------------------------------------------------------
(* C14 *)

\* C14: in either style, the struct line of the k-th table is immediately
\* preceded by exactly three header lines, in this order: the derive line, the
\* rename_all line and the binding line of the style, the binding line
\* carrying the original table name, also when the struct name differs from
\* it; the line before the three is no attribute.
C14_HeaderLines ==
    LET structAt == Where(rustOutput, IsStructLine)
    IN /\ Len(structAt) = tableIdx
       /\ \A k \in 1..tableIdx :
             LET p == structAt[k]
                 style == IF args.sqlx THEN "sqlx" ELSE "serde"
                 binding == IF args.sqlx THEN "table" ELSE "rename"
             IN /\ p >= 5
                /\ rustOutput[p - 3] =
                      (IF args.sqlx
                       THEN "#[derive(Debug, Serialize, Deserialize, sqlx::FromRow)]"
                       ELSE "#[derive(Debug, Serialize, Deserialize)]")
                /\ rustOutput[p - 2] =
                      "#[" \o style \o "(rename_all = \"camelCase\")]"
                /\ rustOutput[p - 1] =
                      "#[" \o style \o "(" \o binding \o " = \""
                      \o tables[k] \o "\")]"
                /\ ~StartsWith(rustOutput[p - 4], "#[")
                /\ rustOutput[p] = "pub struct " \o toRustStructName(tables[k]) \o " {"

\* a written SQLx file of a normalised table name and an overridden one
C14_Witness ==
    /\ pc = "done" /\ outputWrites = 1
    /\ args.sqlx
    /\ tables = <<"API_keys", "users">>
    /\ tableIdx = 2
    /\ mappings = CustomMappings
    /\ \E p \in 1..Len(rustOutput) : rustOutput[p] = "pub struct Account {"
    /\ \E p \in 1..Len(rustOutput) : rustOutput[p] = "pub struct APIKeys {"

-----------------------------------------------------------------------------
(* C15 *)

\* C15: whenever mappings.json cannot be read or parsed, the run continues
\* (to the connection) with the built-in default mapping in memory, that
\* default is persisted to mappings.json, and the file is read once only.
C15_ConfigurationNeverEscalated ==
    [][/\ fileReads' <= 1
       /\ pc = "load" /\ mappingsFile.state # "ok" =>
             /\ pc' = "connect"
             /\ mappings' = DefaultMappings
             /\ Cardinality(DOMAIN mappings'.typeMap) = 16
             /\ mappings'.specialCases = EmptyRecord
             /\ mappingsFile' = [state |-> "ok", content |-> DefaultMappings]]_vars

-----------------------------------------------------------------------------
(* C16 *)

\* C16: as in the README's example output, the line before the field line of
\* a snake_case column (user_name, created_at, user_id) is the rename
\* attribute of the active style carrying the column name.
C16_SnakeCaseRenamed ==
    LET bodies == StructBodies(rustOutput)
    IN \A k \in 1..tableIdx :
          LET body    == bodies[k]
              fieldAt == Where(body, IsFieldLine)
              style   == IF args.sqlx THEN "sqlx" ELSE "serde"
          IN \A i \in 1..Len(columns[k]) :
                LET col == columns[k][i].column_name
                IN IsSnakeCase(col) =>
                      /\ Len(fieldAt) = Len(columns[k])
                      /\ body[fieldAt[i] - 1] =
                            "    #[" \o style \o "(rename = \"" \o col \o "\")]"

-----------------------------------------------------------------------------
(* C17 *)

\* C17 (as claimed): for a non-array source type that is no key of the type
\* map, under a mapping with a default entry, the resolver (the program's and
\* the exported one) returns that default entry, in Option<...> when
\* nullable, and not "String".
C17_DefaultEntryFallback ==
    /\ pc = "return"
    /\ pgType \notin DOMAIN mappings.typeMap
    /\ "default" \in DOMAIN mappings.typeMap
    /\ ~EndsWith(pgType, "[]")
    => rustType = Str(IF isNullable
                      THEN "Option<" \o mappings.typeMap["default"] \o ">"
                      ELSE mappings.typeMap["default"])

\* C17 (amended): in that case the program's getRustType returns the default
\* entry (in Option<...> when nullable); the exported toRustType has no
\* default-entry fallback and returns "String" (in Option<...> when nullable).
C17_DefaultEntryFallbackOfProgram ==
    /\ pc = "return"
    /\ pgType \notin DOMAIN mappings.typeMap
    /\ "default" \in DOMAIN mappings.typeMap
    /\ ~EndsWith(pgType, "[]")
    => LET target == IF fn = "getRustType" THEN mappings.typeMap["default"]
                     ELSE "String"
       IN rustType = Str(IF isNullable THEN "Option<" \o target \o ">"
                         ELSE target)

\* a nullable column of an unknown type resolved under a mapping with a
\* default entry
C17_Witness ==
    /\ fn = "getRustType" /\ pc = "return"
    /\ pgType = "unknown_type"
    /\ isNullable
    /\ "default" \in DOMAIN mappings.typeMap
    /\ rustType = Str("Option<serde_json::Value>")

-----------------------------------------------------------------------------
(* C18 *)

\* C18: every character of toRustFieldName's result (the program's helper and
\* the exported one) is a lowercase letter, a digit or an underscore; the
\* result is the lowercased name with underscores inserted at boundaries and
\* every character outside [a-z0-9_] replaced by exactly one underscore: no
\* input character is deleted.
C18_FieldNameCharacters ==
    fn \in {"toRustFieldName", "toRustFieldName_exported"} /\ Len(out) >= 1 =>
        /\ \A i \in 1..Len(out[1]) :
              LET c == Char(out[1], i)
              IN IsLower(c) \/ IsDigit(c) \/ c = "_"
        /\ LET B == IF fn = "toRustFieldName"
                    THEN LowerUpperAt(name) \cup UpperBeforeWordAt(name)
                    ELSE LowerDigitUpperAt(name)
           IN /\ Len(out[1]) = Len(name) + Cardinality(B)
              /\ out[1] = Sanitized(InsertAfter(name, B))

\* a name with a character outside the set and a boundary
C18_Witness ==
    /\ fn = "toRustFieldName"
    /\ Len(out) >= 1
    /\ name = "a-aB"
    /\ out[1] = "a_a_b"

-----------------------------------------------------------------------------
(* C19 *)

\* C19: the doc line of every column contains the original column name and
\* the source type, contains ", nullable" if and only if the column is
\* nullable, and contains ", default: <expr>" if and only if the column has a
\* default expression (column_default is not null), an empty one included.
C19_DocComment ==
    LET bodies == StructBodies(rustOutput)
    IN \A k \in 1..tableIdx :
          LET docs == SelectSeq(bodies[k], IsDocLine)
          IN /\ Len(docs) = Len(columns[k])
             /\ \A i \in 1..Len(columns[k]) :
                   LET column == columns[k][i]
                   IN /\ Contains(docs[i], column.column_name \o " - "
                                           \o column.data_type)
                      /\ Contains(docs[i], ", nullable")
                            <=> column.is_nullable = "YES"
                      /\ IF column.column_default # null
                         THEN Contains(docs[i], ", default: "
                                                \o column.column_default.s)
                         ELSE ~Contains(docs[i], ", default: ")

-----------------------------------------------------------------------------
(* C20 *)

\* C20 (as claimed): in an SQLx run no emitted line holds a #[serde(...)]
\* attribute, in a Serde run no emitted line mentions sqlx, and every rename
\* attribute has the style of the header lines of its struct.
C20_StyleExclusive ==
    /\ \A p \in 1..Len(rustOutput) :
          /\ args.sqlx => ~Contains(rustOutput[p], "#[serde(")
          /\ ~args.sqlx => ~Contains(rustOutput[p], "sqlx")
    /\ RenameStyleIsHeaderStyle

\* C20 (amended): every import and attribute line the generator writes has
\* the style of the run: in an SQLx run every attribute line is a #[sqlx(...)]
\* attribute or the derive line with sqlx::FromRow; in a Serde run there is no
\* "use sqlx;" line and every attribute line is a #[serde(...)] attribute or
\* the derive line without sqlx::FromRow; every rename attribute has the
\* style of the header lines of its struct.  (Text copied from the schema or
\* the mapping, such as a target type sqlx::types::Uuid, may mention sqlx in
\* a Serde run.)
C20_AttributeStyle ==
    LET style    == IF args.sqlx THEN "sqlx" ELSE "serde"
        derive   == IF args.sqlx
                    THEN "#[derive(Debug, Serialize, Deserialize, sqlx::FromRow)]"
                    ELSE "#[derive(Debug, Serialize, Deserialize)]"
    IN /\ \A p \in 1..Len(rustOutput) :
             LET line == rustOutput[p]
             IN /\ StartsWith(line, "#[") =>
                      line = derive \/ StartsWith(line, "#[" \o style \o "(")
                /\ StartsWith(line, "    #[") =>
                      StartsWith(line, "    #[" \o style \o "(rename = ")
                /\ line = "use sqlx;" => args.sqlx
       /\ RenameStyleIsHeaderStyle

\* a written Serde file with a rename attribute and a field of a target type
\* of the sqlx crate
C20_Witness ==
    /\ pc = "done" /\ outputWrites = 1
    /\ ~args.sqlx
    /\ \E p \in 1..Len(rustOutput) :
          rustOutput[p] = "    #[serde(rename = \"userId\")]"
    /\ \E p \in 1..Len(rustOutput) :
          rustOutput[p] = "    pub user_id: sqlx::types::Uuid,"

-----------------------------------------------------------------------------
(* C21 *)

\* C21: the output file is written at most once, and only with the finished
\* text: after the struct of every table, with all its columns, has been
\* appended; a run whose connection or tables query failed (no text was ever
\* started) or whose columns query failed (tables remain) has written no
\* output file.
C21_NoPartialOutput ==
    /\ outputWrites <= 1
    /\ outputWrites = 0 <=> outputFile = <<>>
    /\ outputFile # <<>> =>
          /\ pc \in {"finally", "done"}
          /\ tableIdx = Len(tables)
          /\ outputFile = <<rustOutput>>
          /\ HoldsEveryStruct(outputFile[1])
    /\ pc \in {"finally", "done"} /\ (rustOutput = <<>> \/ tableIdx < Len(tables))
          => outputWrites = 0 /\ outputFile = <<>>

\* a finished run that wrote the structs of two tables, two columns and one
C21_Witness ==
    /\ pc = "done" /\ outputWrites = 1
    /\ Len(tables) = 2
    /\ Len(columns) = 2
    /\ Len(columns[1]) = 2
    /\ Len(columns[2]) = 1
    /\ outputFile = <<rustOutput>>

-----------------------------------------------------------------------------
(* C22 *)

\* C22: whenever the field identifier of a column is not character for
\* character the original column name (names differing only in letter case
\* included: USERID emitted as userid), the line before its field line is the
\* rename attribute of the active style carrying the original column name.
C22_RenameWheneverDifferent ==
    LET bodies == StructBodies(rustOutput)
    IN \A k \in 1..tableIdx :
          LET body    == bodies[k]
              fieldAt == Where(body, IsFieldLine)
              style   == IF args.sqlx THEN "sqlx" ELSE "serde"
          IN \A i \in 1..Len(columns[k]) :
                LET col == columns[k][i].column_name
                IN /\ Len(fieldAt) = Len(columns[k])
                   /\ FieldIdent(body[fieldAt[i]]) # col =>
                         body[fieldAt[i] - 1] =
                            "    #[" \o style \o "(rename = \"" \o col \o "\")]"

-----------------------------------------------------------------------------
(* C23 *)

\* C23: no emitted struct holds two fields with the same identifier (the
\* columns of one table have different names).
C23_FieldIdentifiersDistinct ==
    LET bodies == StructBodies(rustOutput)
    IN \A k \in 1..tableIdx :
          LET fields == SelectSeq(bodies[k], IsFieldLine)
          IN \A i, j \in 1..Len(fields) :
                i # j => FieldIdent(fields[i]) # FieldIdent(fields[j])

-----------------------------------------------------------------------------
(* C24 *)

\* C24: for a non-empty name whose lowercase is no key of specialCases, the
\* struct name (of the program's helper and of the exported one) is not
\* empty, consists of letters and digits only and begins with an uppercase
\* letter.
C24_PascalCaseIdentifier ==
    /\ fn \in {"toRustStructName", "toRustStructName_exported"}
    /\ Len(out) >= 1
    /\ name # ""
    /\ toLowerCase(name) \notin DOMAIN mappings.specialCases
    => /\ out[1] # ""
       /\ \A i \in 1..Len(out[1]) : IsAlnum(Char(out[1], i))
       /\ IsUpper(Char(out[1], 1))

====
